---- MODULE Spec2Model ----
(***************************************************************************)
(* module-droid-hidl: a PulseAudio module that exposes the droid hardware   *)
(* module's get_parameters/set_parameters over D-Bus and supervises a      *)
(* helper process whose output is logged.                                   *)
(*                                                                          *)
(* The model follows src/src/hidl/module-droid-hidl.c.  Every function of   *)
(* the file is an operator over a "machine" record s:                       *)
(*   s.ud      m->userdata (NULL or the address of the struct userdata)     *)
(*   s.u       the fields of struct userdata as the code reads them         *)
(*   s.w       the world the code acts on: what is really registered,       *)
(*             referenced, open, allocated, locked                          *)
(*   s.ops     the calls made so far by the running handler, in order       *)
(*   s.sent    the D-Bus replies sent by the running handler                *)
(*   s.crashed the process was aborted by a callee                          *)
(***************************************************************************)
EXTENDS Integers, Sequences, FiniteSets, TLC

\* ------------------------------------------------------------- bounds ----
MaxCalls == 2
MaxEvents == 2
MaxIntr == 1
MaxStops == 2
MaxWrites == 2
MaxCount == 4

\* ---------------------------------------------------------- constants ----
NoPid == -1
NoFd == -1
BUFFER_MAX == 512

NULL == "NULL"
PROTO == "dbus_protocol"
HW == "hw_module"
EV == "io_event"
U == "userdata"
ChildPids == {100}
ChildFds == {5}

PA_IO_EVENT_INPUT == "INPUT"
PA_IO_EVENT_HANGUP == "HANGUP"
PA_IO_EVENT_ERROR == "ERROR"

valid_modargs == {"module_id", "helper"}
DEFAULT_MODULE_ID == "primary"

\* The module argument strings tried, each as its list of key=value pairs.
ModuleArguments ==
    { <<>>,
      << <<"helper", "false">> >>,
      << <<"helper", "maybe">> >>,
      << <<"module_id", "secondary">>, <<"helper", "1">> >>,
      << <<"bogus", "1">> >> }

LogLevels == {"ERROR", "DEBUG"}

OpNames ==
    { "modargs_new", "modargs_free", "log_init", "xnew0", "hw_module_get",
      "protocol_get", "add_interface", "register_extension",
      "unregister_extension", "remove_interface", "protocol_unref",
      "get_dbus_address", "xfree_address", "start_child", "io_new",
      "hw_module_unref", "kill", "waitpid", "mainloop_io_free", "close",
      "xfree_userdata", "lock", "unlock", "get_parameters", "set_parameters",
      "message_get_args", "send_return", "send_error", "send_empty_reply",
      "read", "log", "log_debug", "log_warn" }

VARIABLES
    phase,      \* "unloaded", "running", "waiting", "failed", "stopped"
    caller,     \* who runs pa__done: "init" (the fail path) or "done"
    ud,         \* m->userdata
    u,          \* struct userdata
    w,          \* the world
    ops,        \* calls of the current or last handler, in order
    sent,       \* replies of the current or last handler
    cnt,        \* calls made since the module was loaded, per name
    last,       \* the current or last handler and its inputs
    cfg,        \* what pa__init was given and how far it got
    crashed,    \* the process was aborted
    initRet,    \* the values pa__init returned, in order
    level,      \* _log_level
    nCalls, nEvents, nIntr, nStops

vars == << phase, caller, ud, u, w, ops, sent, cnt, last, cfg, crashed,
           initRet, level, nCalls, nEvents, nIntr, nStops >>

\* ------------------------------------------------------------ helpers ----
Count(seq, name) == Cardinality({ i \in DOMAIN seq : seq[i] = name })

Min(a, b) == IF a < b THEN a ELSE b

\* The totals stop counting at MaxCount.
Tally(c, seq) == [ n \in OpNames |-> Min(c[n] + Count(seq, n), MaxCount) ]

Before(seq, a, b) ==
    \A i \in DOMAIN seq, j \in DOMAIN seq : (seq[i] = a /\ seq[j] = b) => i < j

Op(s, name) == [s EXCEPT !.ops = Append(@, name)]

Misuse(s, what) == [s EXCEPT !.w.misuse = @ \cup {what}]

userdata0 ==
    [ dbus_protocol |-> NULL, hw_module |-> NULL,
      pid |-> 0, fd |-> 0, io_event |-> NULL ]

world0 ==
    [ iface |-> FALSE, ext |-> FALSE, protoRefs |-> 0, hwRefs |-> 0,
      child |-> "none", regs |-> 0, fdOpen |-> FALSE, uMem |-> "none",
      lock |-> FALSE, ma |-> "none", address |-> "none", misuse |-> {},
      written |-> 0, writes |-> 0, pending |-> 0, closed |-> FALSE,
      eof |-> {}, records |-> <<>> ]

Machine == [ ud |-> ud, u |-> u, w |-> w, ops |-> <<>>, sent |-> <<>>,
             crashed |-> FALSE ]

\* ------------------------------------------------ the D-Bus interface ----
dbus_init(s) ==
    LET a == Op([s EXCEPT !.u.dbus_protocol = PROTO, !.w.protoRefs = @ + 1],
                "protocol_get")
        b == Op([a EXCEPT !.w.iface = TRUE], "add_interface")
    IN  Op([b EXCEPT !.w.ext = TRUE], "register_extension")

pa_dbus_protocol_unregister_extension(s) ==
    LET a == Op(s, "unregister_extension")
    IN  IF s.u.dbus_protocol = NULL \/ ~s.w.ext
        THEN Misuse(a, "unregister_extension")
        ELSE [a EXCEPT !.w.ext = FALSE]

pa_dbus_protocol_remove_interface(s) ==
    LET a == Op(s, "remove_interface")
    IN  IF s.u.dbus_protocol = NULL \/ ~s.w.iface
        THEN Misuse(a, "remove_interface")
        ELSE [a EXCEPT !.w.iface = FALSE]

pa_dbus_protocol_unref(s) ==
    LET a == Op(s, "protocol_unref")
    IN  IF s.u.dbus_protocol = NULL \/ s.w.protoRefs = 0
        THEN Misuse(a, "protocol_unref")
        ELSE [a EXCEPT !.w.protoRefs = @ - 1]

\* dbus_done is not guarded by the caller and does not test u->dbus_protocol.
\* The callee asserts on its protocol argument: with `abort` the assertion
\* ends the process at the first call, without it the calls return.
dbus_done(s, abort) ==
    LET a == pa_dbus_protocol_unregister_extension(s)
    IN  IF s.u.dbus_protocol = NULL /\ abort
        THEN [a EXCEPT !.crashed = TRUE]
        ELSE LET b == pa_dbus_protocol_remove_interface(a)
                 c == pa_dbus_protocol_unref(b)
             IN  [c EXCEPT !.u.dbus_protocol = NULL]

\* ------------------------------------------------------ the output pump ----
mainloop_io_free(s) ==
    LET a == Op(s, "mainloop_io_free")
    IN  IF s.w.regs = 0 THEN Misuse(a, "mainloop_io_free")
        ELSE [a EXCEPT !.w.regs = @ - 1]

pa_close(s) ==
    LET a == Op(s, "close")
    IN  IF ~s.w.fdOpen THEN Misuse(a, "close")
        ELSE [a EXCEPT !.w.fdOpen = FALSE]

\* io_free without `u->fd = -1`.
io_free_keeps_fd(s) ==
    LET a == IF s.u.io_event # NULL
             THEN [mainloop_io_free(s) EXCEPT !.u.io_event = NULL]
             ELSE s
    IN  IF a.u.fd >= 0 THEN pa_close(a) ELSE a

\* io_free that also forgets the helper's pid.
io_free_forgets_pid(s) ==
    LET a == IF s.u.io_event # NULL
             THEN [mainloop_io_free(s) EXCEPT !.u.io_event = NULL]
             ELSE s
    IN  IF a.u.fd >= 0
        THEN [pa_close(a) EXCEPT !.u.fd = NoFd, !.u.pid = NoPid]
        ELSE a

io_free(s) ==
    LET a == IF s.u.io_event # NULL
             THEN [mainloop_io_free(s) EXCEPT !.u.io_event = NULL]
             ELSE s
    IN  IF a.u.fd >= 0
        THEN [pa_close(a) EXCEPT !.u.fd = NoFd]
        ELSE a

\* ------------------------------------------------------------ pa__done ----
pa_droid_hw_module_unref(s) ==
    LET a == Op(s, "hw_module_unref")
    IN  IF s.w.hwRefs = 0 THEN Misuse(a, "hw_module_unref")
        ELSE [a EXCEPT !.w.hwRefs = @ - 1]

kill(s) ==
    LET a == Op(s, "kill")
    IN  IF s.u.pid \notin ChildPids \/ s.w.child \notin {"running", "signalled"}
        THEN Misuse(a, "kill")
        ELSE [a EXCEPT !.w.child = "signalled"]

pa_xfree_userdata(s) ==
    LET a == Op(s, "xfree_userdata")
    IN  IF s.w.uMem # "live" THEN Misuse(a, "xfree_userdata")
        ELSE [a EXCEPT !.w.uMem = "freed"]

\* pa__done without its pa_droid_hw_module_unref.
pa__done_begin_no_unref(s, abort) ==
    IF s.ud = NULL THEN s
    ELSE LET a == dbus_done(s, abort)
         IN  IF a.crashed THEN a
             ELSE IF a.u.pid # NoPid THEN kill(a) ELSE a

\* pa__done without the test of u->pid before kill.
pa__done_begin_kill_always(s, abort) ==
    IF s.ud = NULL THEN s
    ELSE LET a == dbus_done(s, abort)
         IN  IF a.crashed THEN a
             ELSE kill(IF a.u.hw_module # NULL
                       THEN pa_droid_hw_module_unref(a) ELSE a)

\* pa__done up to the wait loop: dbus_done, the device reference, the signal.
pa__done_begin(s, abort) ==
    IF s.ud = NULL THEN s
    ELSE LET a == dbus_done(IF s.w.uMem = "freed"
                            THEN Misuse(s, "use_after_free") ELSE s, abort)
         IN  IF a.crashed THEN a
             ELSE LET b == IF a.u.hw_module # NULL
                           THEN pa_droid_hw_module_unref(a) ELSE a
                  IN  IF b.u.pid # NoPid THEN kill(b) ELSE b

\* Whether pa__done enters the wait loop.
pa__done_waits(s) == s.ud # NULL /\ ~s.crashed /\ s.u.pid # NoPid

\* One waitpid of the loop; res is "reaped" (>= 0), "EINTR" or "ECHILD".
waitpid(s, res) ==
    LET a == Op(s, "waitpid")
    IN  IF res = "reaped" THEN [a EXCEPT !.w.child = "reaped"]
        ELSE IF res = "EINTR" THEN a
        ELSE Op(a, "log")

\* pa__done releasing the module state before its io_free.
pa__done_end_frees_first(s) ==
    IF s.ud = NULL THEN s
    ELSE io_free(pa_xfree_userdata(s))

\* pa__done after the wait loop: io_free, then the module state. m->userdata
\* is left as it is.
pa__done_end(s) ==
    IF s.ud = NULL THEN s
    ELSE pa_xfree_userdata(io_free(s))

\* ------------------------------------------------------------ pa__init ----
pa_modargs_new(argument) ==
    [ null  |-> ~(\A i \in DOMAIN argument : argument[i][1] \in valid_modargs),
      pairs |-> argument ]

pa_modargs_get_value(ma, key, def) ==
    IF \E i \in DOMAIN ma.pairs : ma.pairs[i][1] = key
    THEN ma.pairs[CHOOSE i \in DOMAIN ma.pairs : ma.pairs[i][1] = key][2]
    ELSE def

pa_parse_boolean(v) ==
    IF v \in {"1", "y", "t", "yes", "true", "on"} THEN 1
    ELSE IF v \in {"0", "n", "f", "no", "false", "off"} THEN 0
    ELSE -1

\* pa_modargs_get_value_boolean accepting a value it cannot parse.
pa_modargs_get_value_boolean_unparsed_ok(ma, key, cur) ==
    LET v == pa_modargs_get_value(ma, key, NULL)
    IN  IF v = NULL \/ pa_parse_boolean(v) < 0 THEN <<0, cur>>
        ELSE <<0, pa_parse_boolean(v) = 1>>

\* <<return value, value of the flag afterwards>>
pa_modargs_get_value_boolean(ma, key, cur) ==
    LET v == pa_modargs_get_value(ma, key, NULL)
    IN  IF v = NULL THEN <<0, cur>>
        ELSE IF pa_parse_boolean(v) < 0 THEN <<-1, cur>>
        ELSE <<0, pa_parse_boolean(v) = 1>>

\* What pa_start_child_for_read can do: fail, or return a descriptor and
\* store the child's pid.
Children ==
    { [ok |-> FALSE, fd |-> NoFd, pid |-> NoPid] } \cup
    { [ok |-> TRUE, fd |-> f, pid |-> p] : f \in ChildFds, p \in ChildPids }

pa_start_child_for_read(s, child) ==
    LET a == Op(s, "start_child")
    IN  IF child.ok
        THEN [a EXCEPT !.u.fd = child.fd, !.u.pid = child.pid,
                       !.w.child = "running", !.w.fdOpen = TRUE]
        ELSE [a EXCEPT !.u.fd = NoFd]

mainloop_io_new(s) ==
    Op([s EXCEPT !.u.io_event = EV, !.w.regs = @ + 1], "io_new")

\* The fail label: the locals ma and dbus_address, then pa__done up to its
\* wait loop.
pa__init_fail(s, maLive, addressLive, abort) ==
    LET a == IF maLive THEN Op([s EXCEPT !.w.ma = "freed"], "modargs_free")
             ELSE s
        b == IF addressLive
             THEN Op([a EXCEPT !.w.address = "freed"], "xfree_address")
             ELSE a
    IN  pa__done_begin(b, abort)

\* pa__init: [s, ret, helper, step, level].  With ret = -1, s is the machine
\* inside the pa__done of the fail path, before its wait loop.
pa__init(s, argument, lvl, hwPresent, child, abort) ==
    LET ma == pa_modargs_new(argument)
        s1 == Op(s, "modargs_new")
    IN
    IF ma.null
    THEN [ s |-> pa__init_fail(s1, FALSE, FALSE, abort), ret |-> -1,
           helper |-> TRUE, step |-> "args", level |-> level ]
    ELSE
    LET s2 == Op([s1 EXCEPT !.w.ma = "live"], "log_init")
        s3 == Op([s2 EXCEPT !.ud = U, !.w.uMem = "live",
                            !.u = [userdata0 EXCEPT !.pid = NoPid, !.fd = NoFd]],
                 "xnew0")
        module_id == pa_modargs_get_value(ma, "module_id", DEFAULT_MODULE_ID)
        hb == pa_modargs_get_value_boolean(ma, "helper", TRUE)
        helper == hb[2]
    IN
    IF hb[1] < 0
    THEN [ s |-> pa__init_fail(s3, TRUE, FALSE, abort), ret |-> -1,
           helper |-> helper, step |-> "helper", level |-> lvl ]
    ELSE
    LET s4 == Op(IF hwPresent
                 THEN [s3 EXCEPT !.u.hw_module = HW, !.w.hwRefs = @ + 1]
                 ELSE s3, "hw_module_get")
    IN
    IF s4.u.hw_module = NULL
    THEN [ s |-> pa__init_fail(s4, TRUE, FALSE, abort), ret |-> -1,
           helper |-> helper, step |-> "hw", level |-> lvl ]
    ELSE
    LET s5 == dbus_init(s4)
        s6 == Op([s5 EXCEPT !.w.address = "live"], "get_dbus_address")
    IN
    IF ~helper
    THEN [ s |-> s6, ret |-> 0, helper |-> helper, step |-> "ok",
           level |-> lvl ]
    ELSE
    LET s7 == pa_start_child_for_read(s6, child)
    IN
    IF s7.u.fd < 0
    THEN [ s |-> pa__init_fail(s7, TRUE, TRUE, abort), ret |-> -1,
           helper |-> helper, step |-> "spawn", level |-> lvl ]
    ELSE
    LET s8 == Op([s7 EXCEPT !.w.address = "freed"], "xfree_address")
        s9 == Op(s8, "log")
    IN  [ s |-> mainloop_io_new(s9), ret |-> 0, helper |-> helper,
          step |-> "ok", level |-> lvl ]

\* --------------------------------------------------------- io_event_cb ----
log_level_debug(lvl) == lvl = "DEBUG"

IoEvents == (SUBSET {PA_IO_EVENT_INPUT, PA_IO_EVENT_HANGUP, PA_IO_EVENT_ERROR}) \ {{}}

\* What pa_read can return: an error, end of file, some bytes, a full buffer.
ReadResults == {-1, 0, 1, BUFFER_MAX}

\* pa_read(u->fd, buffer, BUFFER_MAX, NULL) returning r: r bytes leave the
\* pipe.
pa_read(s, r) ==
    LET a == Op(s, "read")
    IN  IF r > 0 THEN [a EXCEPT !.w.pending = IF @ > r THEN @ - r ELSE 0]
        ELSE a

\* The "[helper] %s" line for the r bytes read.  The buffer was zeroed
\* before the read, so its text ends within the buffer unless the read
\* filled it; then the line runs on past the buffer to the next zero byte.
log_buffer(s, r, lvl) ==
    LET a == Op(s, IF log_level_debug(lvl) THEN "log_debug" ELSE "log")
    IN  [a EXCEPT !.w.records =
            Append(@, [bytes |-> r, bounded |-> r < BUFFER_MAX])]

\* io_event_cb without the io_free of a failed read.
io_event_cb_ignores_failed_read(s, events, r, lvl) ==
    IF PA_IO_EVENT_INPUT \in events
    THEN LET a == pa_read(s, r)
         IN  IF r > 0
             THEN log_buffer(a, r, lvl)
             ELSE IF r < 0 THEN Op(a, "log") ELSE a
    ELSE IF PA_IO_EVENT_HANGUP \in events
    THEN io_free(Op(s, "log_debug"))
    ELSE IF PA_IO_EVENT_ERROR \in events
    THEN io_free(Op(s, "log"))
    ELSE s

\* io_event_cb keeping the descriptor after an error notification.
io_event_cb_error_ignored(s, events, r, lvl) ==
    IF PA_IO_EVENT_INPUT \in events
    THEN LET a == pa_read(s, r)
         IN  IF r > 0
             THEN log_buffer(a, r, lvl)
             ELSE IF r < 0
             THEN io_free(Op(a, "log"))
             ELSE a
    ELSE IF PA_IO_EVENT_HANGUP \in events
    THEN io_free(Op(s, "log_debug"))
    ELSE IF PA_IO_EVENT_ERROR \in events
    THEN Op(s, "log")
    ELSE s

\* io_event_cb keeping the descriptor after a hangup notification.
io_event_cb_hangup_ignored(s, events, r, lvl) ==
    IF PA_IO_EVENT_INPUT \in events
    THEN LET a == pa_read(s, r)
         IN  IF r > 0
             THEN log_buffer(a, r, lvl)
             ELSE IF r < 0
             THEN io_free(Op(a, "log"))
             ELSE a
    ELSE IF PA_IO_EVENT_HANGUP \in events
    THEN Op(s, "log_debug")
    ELSE IF PA_IO_EVENT_ERROR \in events
    THEN io_free(Op(s, "log"))
    ELSE s

\* io_event_cb reading a second time while the pipe still holds bytes.
io_event_cb_drains(s, events, r, lvl) ==
    IF PA_IO_EVENT_INPUT \in events
    THEN LET a == pa_read(s, r)
         IN  IF r > 0
             THEN LET b == log_buffer(a, r, lvl)
                      r2 == Min(b.w.pending, BUFFER_MAX)
                  IN  IF r2 > 0 THEN log_buffer(pa_read(b, r2), r2, lvl)
                      ELSE b
             ELSE IF r < 0
             THEN io_free(Op(a, "log"))
             ELSE a
    ELSE IF PA_IO_EVENT_HANGUP \in events
    THEN io_free(Op(s, "log_debug"))
    ELSE IF PA_IO_EVENT_ERROR \in events
    THEN io_free(Op(s, "log"))
    ELSE s

\* events: the interest kinds of the notification; r: what the one pa_read
\* returns if it is made.
io_event_cb(s, events, r, lvl) ==
    IF PA_IO_EVENT_INPUT \in events
    THEN LET a == pa_read(s, r)
         IN  IF r > 0
             THEN log_buffer(a, r, lvl)
             ELSE IF r < 0
             THEN io_free(Op(a, "log"))
             ELSE a
    ELSE IF PA_IO_EVENT_HANGUP \in events
    THEN io_free(Op(s, "log_debug"))
    ELSE IF PA_IO_EVENT_ERROR \in events
    THEN io_free(Op(s, "log"))
    ELSE s

\* ------------------------------------------------ the parameter bridge ----
Strings == {"a=1;b=2", "bad"}

\* The argument lists of the incoming method calls tried.
Messages ==
    { <<>>, << [type |-> "i", value |-> "7"] >> } \cup
    { << [type |-> "s", value |-> v] >> : v \in Strings }

\* What the device's get_parameters can return, and set_parameters.
DeviceResults == {"a=1", NULL}
DeviceStatus == {-22, 0, 1}

\* dbus_message_get_args(msg, &error, DBUS_TYPE_STRING, &v, DBUS_TYPE_INVALID)
dbus_message_get_args(msg) ==
    LET ok == Len(msg) = 1 /\ msg[1].type = "s"
    IN  [ ok |-> ok, value |-> IF ok THEN msg[1].value ELSE NULL ]

pa_droid_hw_module_lock(s) ==
    LET a == Op(s, "lock")
    IN  IF s.w.lock THEN Misuse(a, "lock") ELSE [a EXCEPT !.w.lock = TRUE]

pa_droid_hw_module_unlock(s) ==
    LET a == Op(s, "unlock")
    IN  IF ~s.w.lock THEN Misuse(a, "unlock") ELSE [a EXCEPT !.w.lock = FALSE]

\* A call of the device: name is "get_parameters" or "set_parameters".
device_call(s, name) ==
    LET a == Op(s, name)
    IN  IF ~s.w.lock THEN Misuse(a, "device_unlocked") ELSE a

Send(s, kind, args) ==
    [ Op(s, kind) EXCEPT !.sent = Append(@, [kind |-> kind, args |-> args]) ]

\* hidl_get_parameters taking the device lock before it parses the call.
hidl_get_parameters_lock_first(s, msg, result, onNull) ==
    LET p == dbus_message_get_args(msg)
        a == Op(pa_droid_hw_module_lock(s), "message_get_args")
    IN  IF p.ok
        THEN LET c == device_call(a, "get_parameters")
                 d == pa_droid_hw_module_unlock(c)
                 e == Op(d, "log_debug")
             IN  IF result = NULL
                 THEN IF onNull = "abort"
                      THEN [e EXCEPT !.crashed = TRUE]
                      ELSE Send(e, "send_return", <<>>)
                 ELSE Send(e, "send_return", <<result>>)
        ELSE Send(pa_droid_hw_module_unlock(a), "send_error", <<"Fail">>)

\* result: what the device returns.  A null result is handed to
\* dbus_message_append_args as a null DBUS_TYPE_STRING, which libdbus does
\* not accept: onNull is what it does then, "abort" (the process dies in the
\* append) or "refuse" (the append fails and the reply goes out empty).
hidl_get_parameters(s, msg, result, onNull) ==
    LET p == dbus_message_get_args(msg)
        a == Op(s, "message_get_args")
    IN  IF p.ok
        THEN LET b == pa_droid_hw_module_lock(a)
                 c == device_call(b, "get_parameters")
                 d == pa_droid_hw_module_unlock(c)
                 e == Op(d, "log_debug")
             IN  IF result = NULL
                 THEN IF onNull = "abort"
                      THEN [e EXCEPT !.crashed = TRUE]
                      ELSE Send(e, "send_return", <<>>)
                 ELSE Send(e, "send_return", <<result>>)
        ELSE Send(a, "send_error", <<"Fail">>)

\* hidl_set_parameters testing `ret < 0` in place of `ret != 0`.
hidl_set_parameters_negative_only(s, msg, ret) ==
    LET p == dbus_message_get_args(msg)
        a == Op(s, "message_get_args")
    IN  IF p.ok
        THEN LET b == Op(a, "log_debug")
                 c == pa_droid_hw_module_lock(b)
                 d == device_call(c, "set_parameters")
                 e == pa_droid_hw_module_unlock(d)
             IN  IF ret < 0
                 THEN Send(Op(e, "log_warn"), "send_error",
                           <<"Failed to set parameters.">>)
                 ELSE Send(e, "send_empty_reply", <<>>)
        ELSE Send(a, "send_error", <<"Fail">>)

\* hidl_set_parameters replying to a failed set before it unlocks, and
\* unlocking only on the success path.
hidl_set_parameters_lock_leak(s, msg, ret) ==
    LET p == dbus_message_get_args(msg)
        a == Op(s, "message_get_args")
    IN  IF p.ok
        THEN LET b == Op(a, "log_debug")
                 c == pa_droid_hw_module_lock(b)
                 d == device_call(c, "set_parameters")
             IN  IF ret # 0
                 THEN Send(Op(d, "log_warn"), "send_error",
                           <<"Failed to set parameters.">>)
                 ELSE Send(pa_droid_hw_module_unlock(d), "send_empty_reply", <<>>)
        ELSE Send(a, "send_error", <<"Fail">>)

hidl_set_parameters(s, msg, ret) ==
    LET p == dbus_message_get_args(msg)
        a == Op(s, "message_get_args")
    IN  IF p.ok
        THEN LET b == Op(a, "log_debug")
                 c == pa_droid_hw_module_lock(b)
                 d == device_call(c, "set_parameters")
                 e == pa_droid_hw_module_unlock(d)
             IN  IF ret # 0
                 THEN Send(Op(e, "log_warn"), "send_error",
                           <<"Failed to set parameters.">>)
                 ELSE Send(e, "send_empty_reply", <<>>)
        ELSE Send(a, "send_error", <<"Fail">>)

\* ------------------------------------------------------------- actions ----
Init ==
    /\ phase = "unloaded"
    /\ caller = "none"
    /\ ud = NULL
    /\ u = userdata0
    /\ w = world0
    /\ ops = <<>>
    /\ sent = <<>>
    /\ cnt = [ n \in OpNames |-> 0 ]
    /\ last = [ op |-> "none" ]
    /\ cfg = [ argument |-> <<>>, helper |-> TRUE, step |-> "none" ]
    /\ crashed = FALSE
    /\ initRet = <<>>
    /\ level = "ERROR"
    /\ nCalls = 0
    /\ nEvents = 0
    /\ nIntr = 0
    /\ nStops = 0

\* The machine a handler starts from, and the one a resumed pa__done has.
Resumed == [ Machine EXCEPT !.ops = ops, !.sent = sent ]

\* Store machine s; `old` is the part of s.ops counted before.
Commit(s, old) ==
    /\ ud' = s.ud
    /\ u' = s.u
    /\ w' = s.w
    /\ ops' = s.ops
    /\ sent' = s.sent
    /\ crashed' = s.crashed
    /\ cnt' = Tally(cnt, SubSeq(s.ops, Len(old) + 1, Len(s.ops)))

\* pa__done (and with it a failing pa__init) returns.
Returned(s, who, old) ==
    /\ Commit(s, old)
    /\ phase' = IF s.crashed THEN "aborted"
                ELSE IF who = "init" THEN "failed" ELSE "stopped"
    /\ initRet' = IF who = "init" /\ ~s.crashed
                  THEN Append(initRet, -1) ELSE initRet
    /\ caller' = who

\* Continue pa__done from machine s, which is before the wait loop.
Unwind(s, who, old) ==
    IF pa__done_waits(s)
    THEN /\ Commit(s, old)
         /\ phase' = "waiting"
         /\ caller' = who
         /\ UNCHANGED initRet
    ELSE Returned(IF s.crashed THEN s ELSE pa__done_end(s), who, old)

Start ==
    /\ phase = "unloaded"
    /\ \E argument \in ModuleArguments, lvl \in LogLevels,
          hwPresent \in BOOLEAN, child \in Children, abort \in BOOLEAN :
          LET r == pa__init(Machine, argument, lvl, hwPresent, child, abort)
          IN  /\ last' = [ op |-> "init" ]
              /\ cfg' = [ argument |-> argument, helper |-> r.helper,
                          step |-> r.step ]
              /\ level' = r.level
              /\ IF r.ret = 0
                 THEN /\ Commit(r.s, <<>>)
                      /\ phase' = "running"
                      /\ initRet' = Append(initRet, 0)
                      /\ UNCHANGED caller
                 ELSE Unwind(r.s, "init", <<>>)
    /\ UNCHANGED << nCalls, nEvents, nIntr, nStops >>

\* The host unloads the module: pa__done.
Stop ==
    /\ phase = "running"
    /\ \E abort \in BOOLEAN :
          /\ last' = [ op |-> "done", active |-> u.io_event # NULL,
                       pid |-> u.pid, again |-> FALSE ]
          /\ Unwind(pa__done_begin(Machine, abort), "done", <<>>)
    /\ nStops' = nStops + 1
    /\ UNCHANGED << cfg, level, nCalls, nEvents, nIntr >>

\* The wait loop giving up on EINTR as on any other failure.
WaitInterrupted_gives_up ==
    /\ phase = "waiting"
    /\ nIntr < MaxIntr
    /\ nIntr' = nIntr + 1
    /\ Returned(pa__done_end(waitpid(Resumed, "EINTR")), caller, ops)
    /\ UNCHANGED << last, cfg, level, nCalls, nEvents, nStops >>

WaitInterrupted ==
    /\ phase = "waiting"
    /\ nIntr < MaxIntr
    /\ nIntr' = nIntr + 1
    /\ Commit(waitpid(Resumed, "EINTR"), ops)
    /\ UNCHANGED << phase, caller, last, cfg, initRet, level, nCalls, nEvents,
                    nStops >>

WaitReturns ==
    /\ phase = "waiting"
    /\ \E res \in {"reaped", "ECHILD"} :
          Returned(pa__done_end(waitpid(Resumed, res)), caller, ops)
    /\ UNCHANGED << last, cfg, level, nCalls, nEvents, nIntr, nStops >>

\* A remote call dispatched to its handler; the interface is registered.
\* An aborted handler ends the process.
Handled(s) ==
    /\ Commit(s, <<>>)
    /\ phase' = IF s.crashed THEN "aborted" ELSE phase
    /\ nCalls' = nCalls + 1
    /\ UNCHANGED << caller, cfg, initRet, level, nEvents, nIntr, nStops >>

GetParameters ==
    /\ phase = "running"
    /\ w.iface
    /\ nCalls < MaxCalls
    /\ \E msg \in Messages, result \in DeviceResults, onNull \in {"abort", "refuse"} :
          /\ last' = [ op |-> "get", msg |-> msg, result |-> result ]
          /\ Handled(hidl_get_parameters(Machine, msg, result, onNull))

SetParameters ==
    /\ phase = "running"
    /\ w.iface
    /\ nCalls < MaxCalls
    /\ \E msg \in Messages, ret \in DeviceStatus :
          /\ last' = [ op |-> "set", msg |-> msg, ret |-> ret ]
          /\ Handled(hidl_set_parameters(Machine, msg, ret))

\* The main loop dispatches a notification for the registered descriptor.
IoEvent ==
    /\ phase = "running"
    /\ w.regs > 0
    /\ nEvents < MaxEvents
    /\ \E events \in IoEvents, r \in ReadResults :
          /\ last' = [ op |-> "io", events |-> events, r |-> r,
                       active |-> u.io_event # NULL /\ u.fd >= 0 ]
          /\ Commit(io_event_cb(Machine, events, r, level), <<>>)
    /\ nEvents' = nEvents + 1
    /\ UNCHANGED << phase, caller, cfg, initRet, level, nCalls, nIntr, nStops >>

Next ==
    \/ Start
    \/ GetParameters
    \/ SetParameters
    \/ IoEvent
    \/ Stop
    \/ WaitInterrupted
    \/ WaitReturns

Spec == Init /\ [][Next]_vars

\* Loading, the pump and unloading, without remote calls (pa__done reads
\* nothing the handlers write).
NextWait ==
    \/ Start
    \/ IoEvent
    \/ Stop
    \/ WaitInterrupted
    \/ WaitReturns

\* The module when a waitpid of pa__done's loop eventually returns with
\* something else than EINTR.
SpecWait == Init /\ [][NextWait]_vars /\ WF_vars(WaitReturns)

\* ------------------------------------------------ the helper's pipe ----
\* The sizes of the helper's writes: a short line, and more than one buffer.
HelperChunks == {6, BUFFER_MAX + 1}

\* How the main loop reports the end of the stream: as readable (the read
\* then returns 0), as hangup, or as both.
EofStyles ==
    { {PA_IO_EVENT_INPUT}, {PA_IO_EVENT_HANGUP},
      {PA_IO_EVENT_INPUT, PA_IO_EVENT_HANGUP} }

\* The helper writes n bytes to its standard output, the pipe of
\* pa_start_child_for_read.
HelperWrites ==
    /\ phase = "running"
    /\ w.child = "running" /\ ~w.closed
    /\ w.writes < MaxWrites
    /\ \E n \in HelperChunks :
          w' = [w EXCEPT !.written = @ + n, !.pending = @ + n,
                         !.writes = @ + 1]
    /\ last' = [ op |-> "helper" ]
    /\ UNCHANGED << phase, caller, ud, u, ops, sent, cnt, cfg, crashed,
                    initRet, level, nCalls, nEvents, nIntr, nStops >>

\* The helper closes its end of the pipe (or exits).
HelperCloses ==
    /\ phase = "running"
    /\ w.child = "running" /\ ~w.closed
    /\ \E style \in EofStyles :
          w' = [w EXCEPT !.closed = TRUE, !.eof = style]
    /\ last' = [ op |-> "helper" ]
    /\ UNCHANGED << phase, caller, ud, u, ops, sent, cnt, cfg, crashed,
                    initRet, level, nCalls, nEvents, nIntr, nStops >>

\* The notifications the main loop can deliver for the pipe as it is, each
\* with what a read would return: readable while bytes are pending (with
\* hangup too, once the helper closed, if the loop reports hangup), and the
\* end of the stream in the loop's style when the pipe is drained.
Readiness ==
    IF w.pending > 0
    THEN { [events |-> e, r |-> Min(w.pending, BUFFER_MAX)] :
             e \in { {PA_IO_EVENT_INPUT} } \cup
                   (IF w.closed /\ PA_IO_EVENT_HANGUP \in w.eof
                    THEN { {PA_IO_EVENT_INPUT, PA_IO_EVENT_HANGUP} }
                    ELSE {}) }
    ELSE IF w.closed
    THEN { [events |-> w.eof, r |-> 0] }
    ELSE {}

\* The main loop dispatches a notification for the helper's pipe; last.odd
\* tells a notification from the one before it.
Notify ==
    /\ phase = "running"
    /\ w.regs > 0
    /\ \E n \in Readiness :
          /\ last' = [ op |-> "io", events |-> n.events, r |-> n.r,
                       active |-> u.io_event # NULL /\ u.fd >= 0,
                       odd |-> IF last.op = "io" THEN ~last.odd ELSE TRUE ]
          /\ Commit(io_event_cb(Machine, n.events, n.r, level), <<>>)
    /\ UNCHANGED << phase, caller, cfg, initRet, level, nCalls, nEvents, nIntr,
                    nStops >>

\* The module with a helper writing to the pipe and a main loop reporting
\* what the pipe holds.
NextHelper ==
    \/ Start
    \/ HelperWrites
    \/ HelperCloses
    \/ Notify
    \/ Stop
    \/ WaitInterrupted
    \/ WaitReturns

\* The main loop keeps delivering notifications while the descriptor is
\* registered and ready.
SpecHelper == Init /\ [][NextHelper]_vars /\ WF_vars(Notify)

\* What a read of the freed struct userdata can give: m->userdata still
\* points to it after pa__done.
Freed ==
    [ dbus_protocol : {NULL, PROTO}, hw_module : {NULL, HW},
      pid : {NoPid} \cup ChildPids, fd : {NoFd} \cup ChildFds,
      io_event : {NULL, EV} ]

\* pa__done is called on a module whose pa__done has already run, by itself
\* or inside a failed pa__init.
StopAgain ==
    /\ phase \in {"failed", "stopped"}
    /\ nStops < MaxStops
    /\ \E abort \in BOOLEAN, g \in (IF w.uMem = "freed" THEN Freed ELSE {u}) :
          /\ last' = [ op |-> "done", active |-> FALSE, pid |-> g.pid,
                       again |-> TRUE ]
          /\ Unwind(pa__done_begin([Machine EXCEPT !.u = g], abort), "done", <<>>)
    /\ nStops' = nStops + 1
    /\ UNCHANGED << cfg, level, nCalls, nEvents, nIntr >>

NextReStop == Next \/ StopAgain

SpecReStop == Init /\ [][NextReStop]_vars

\* ============================================================== claims ====
\* Shorthands over the state between two handlers.
Idle == u.io_event = NULL /\ u.fd = NoFd /\ w.regs = 0 /\ ~w.fdOpen

Active == u.io_event = EV /\ u.fd \in ChildFds /\ w.regs = 1 /\ w.fdOpen

WellFormed == last.op \in {"get", "set"} /\ dbus_message_get_args(last.msg).ok

Malformed == last.op \in {"get", "set"} /\ ~dbus_message_get_args(last.msg).ok

ReplyKinds == {"send_return", "send_error", "send_empty_reply"}

Replies(seq) == Count(seq, "send_return") + Count(seq, "send_error")
                + Count(seq, "send_empty_reply")

NothingHeld ==
    /\ ~w.iface /\ ~w.ext /\ w.protoRefs = 0 /\ w.hwRefs = 0
    /\ w.child \in {"none", "reaped"} /\ w.regs = 0 /\ ~w.fdOpen
    /\ w.uMem # "live"

\* pa__init has ended, by returning failure or by the process ending in it.
InitEndedInFailure == last.op = "init" /\ phase \in {"failed", "aborted"}

\* C1: whatever step pa__init fails at, the unwind releases only what was
\* acquired (no unregistration of an interface never registered, no drop of a
\* transport reference never taken, no release of an absent device handle, no
\* signal to an untracked pid), leaves nothing acquired, and pa__init returns
\* failure.
C1_UnwindReleasesOnlyAcquired ==
    InitEndedInFailure =>
        /\ w.misuse = {}
        /\ cnt["protocol_get"] = 0 =>
              /\ Count(ops, "unregister_extension") = 0
              /\ Count(ops, "remove_interface") = 0
              /\ Count(ops, "protocol_unref") = 0
        /\ NothingHeld
        /\ phase = "failed"
        /\ initRet = << -1 >>

\* C2: pa__init with helper enabled and a failing spawn returns with the
\* interface and extension unregistered, the transport reference dropped, the
\* device reference released exactly once, no pid tracked, no descriptor open,
\* no event-loop registration, and failure reported exactly once.
C2_SpawnFailureUnwinds ==
    (last.op = "init" /\ cfg.step = "spawn") =>
        /\ phase = "failed"
        /\ ~w.iface /\ ~w.ext
        /\ Count(ops, "unregister_extension") = 1
        /\ Count(ops, "remove_interface") = 1
        /\ w.protoRefs = 0 /\ Count(ops, "protocol_unref") = 1
        /\ w.hwRefs = 0
        /\ Count(ops, "hw_module_get") = 1 /\ Count(ops, "hw_module_unref") = 1
        /\ u.pid = NoPid /\ w.child = "none"
        /\ Count(ops, "kill") = 0 /\ Count(ops, "waitpid") = 0
        /\ Idle /\ Count(ops, "io_new") = 0
        /\ w.uMem = "freed"
        /\ w.misuse = {}
        /\ initRet = << -1 >>

C2_Witness ==
    /\ last.op = "init" /\ cfg.step = "spawn" /\ cfg.helper
    /\ phase = "failed"
    /\ Count(ops, "start_child") = 1 /\ Count(ops, "register_extension") = 1

\* C3: a pa__done called after a pa__done has completed (also the one run
\* inside a failed pa__init) does nothing: no signal, no wait, no
\* unregistration, no device release, no close, no release of the module state.
C3_SecondStopDoesNothing ==
    (last.op = "done" /\ last.again) =>
        /\ ops = <<>>
        /\ "use_after_free" \notin w.misuse
        /\ ~crashed

C5_NonPositiveReadEndsSession ==
    ( /\ last.op = "io" /\ last.active
      /\ PA_IO_EVENT_INPUT \in last.events /\ last.r <= 0 ) => Idle

\* C5 amended: in state Active, readable interest with a negative read result
\* ends in Idle, registration released and descriptor closed by the callback;
\* a zero-byte read leaves the pump Active, registration and descriptor as
\* they were.
C5_NegativeReadEndsSession ==
    ( /\ last.op = "io" /\ last.active
      /\ PA_IO_EVENT_INPUT \in last.events ) =>
        /\ Count(ops, "read") = 1
        /\ last.r < 0 =>
              /\ Idle
              /\ Count(ops, "mainloop_io_free") = 1
              /\ Count(ops, "close") = 1
        /\ last.r = 0 =>
              /\ Active
              /\ ops = << "read" >>

C5_Witness ==
    /\ last.op = "io" /\ last.active
    /\ PA_IO_EVENT_INPUT \in last.events /\ last.r < 0
    /\ Idle /\ phase = "running"

\* C6: a well-formed SetParameters call gets exactly one reply, the empty
\* success reply iff set_parameters returned zero and an error reply
\* otherwise, and the device is called exactly once.
C6_SetRepliesOnce ==
    (last.op = "set" /\ WellFormed) =>
        /\ Len(sent) = 1 /\ Replies(ops) = 1
        /\ (sent[1].kind = "send_empty_reply") <=> (last.ret = 0)
        /\ (sent[1].kind = "send_error") <=> (last.ret # 0)
        /\ Count(ops, "set_parameters") = 1
        /\ Count(ops, "get_parameters") = 0

C6_Witness ==
    /\ last.op = "set" /\ WellFormed /\ last.ret > 0
    /\ sent = << [kind |-> "send_error", args |-> <<"Failed to set parameters.">>] >>

\* C7: a GetParameters or SetParameters call whose arguments do not parse as
\* one string gets exactly one error reply, and the device is not touched: no
\* lock, no get_parameters, no set_parameters.
C7_MalformedNeverTouchesDevice ==
    Malformed =>
        /\ Len(sent) = 1 /\ Replies(ops) = 1
        /\ sent[1].kind = "send_error"
        /\ Count(ops, "lock") = 0 /\ Count(ops, "unlock") = 0
        /\ Count(ops, "get_parameters") = 0
        /\ Count(ops, "set_parameters") = 0
        /\ ~w.lock

C7_Witness ==
    /\ Malformed /\ last.op = "get" /\ last.msg # <<>>
    /\ Count(ops, "send_error") = 1

\* C8: a well-formed GetParameters call gets exactly one success reply whose
\* payload is what the device's get_parameters returned, unmodified, also when
\* that is null; never an error reply.
C8_GetPassesThrough ==
    (last.op = "get" /\ WellFormed) =>
        /\ ~crashed
        /\ Len(sent) = 1 /\ Replies(ops) = 1
        /\ sent[1].kind = "send_return"
        /\ sent[1].args = << last.result >>
        /\ Count(ops, "get_parameters") = 1

\* C9: the device is called only with the device lock held by the handler;
\* a well-formed call locks once and unlocks once, a malformed one not at all;
\* the unlock precedes every reply; no handler returns with the lock held.
C9_LockDiscipline ==
    /\ ~w.lock
    /\ {"lock", "unlock", "device_unlocked"} \cap w.misuse = {}
    /\ last.op \in {"get", "set"} =>
          LET dev == IF last.op = "get" THEN "get_parameters"
                     ELSE "set_parameters"
              n == IF WellFormed THEN 1 ELSE 0
          IN  /\ Count(ops, "lock") = n /\ Count(ops, "unlock") = n
              /\ Count(ops, dev) = n
              /\ Before(ops, "lock", dev) /\ Before(ops, dev, "unlock")
              /\ \A k \in ReplyKinds : Before(ops, "unlock", k)

C9_Witness ==
    /\ last.op = "set" /\ WellFormed /\ last.ret # 0
    /\ Count(ops, "unlock") = 1 /\ Count(ops, "send_error") = 1
    /\ ~w.lock

\* C10: with helper disabled nothing is spawned, registered with the event
\* loop, signalled or waited for, from pa__init to the end of pa__done: pid,
\* descriptor and registration stay absent; and pa__init and pa__done make no
\* device get/set call.
C10_HelperDisabled ==
    (cfg.step # "none" /\ ~cfg.helper) =>
        /\ cnt["start_child"] = 0 /\ cnt["io_new"] = 0
        /\ cnt["kill"] = 0 /\ cnt["waitpid"] = 0
        /\ u.pid = NoPid /\ w.child = "none"
        /\ Idle
        /\ phase # "waiting"
        /\ nCalls = 0 => (cnt["get_parameters"] = 0 /\ cnt["set_parameters"] = 0)

C10_Witness ==
    /\ cfg.step = "ok" /\ ~cfg.helper
    /\ phase = "stopped" /\ nCalls = 0
    /\ Count(ops, "xfree_userdata") = 1

\* What a pump callback must leave alone: everything but the descriptor and
\* the event-loop registration.
PumpFrame ==
    /\ phase' = phase /\ ud' = ud /\ crashed' = crashed
    /\ u'.dbus_protocol = u.dbus_protocol
    /\ u'.hw_module = u.hw_module
    /\ u'.pid = u.pid
    /\ w'.iface = w.iface /\ w'.ext = w.ext
    /\ w'.protoRefs = w.protoRefs /\ w'.hwRefs = w.hwRefs
    /\ w'.child = w.child /\ w'.uMem = w.uMem /\ w'.lock = w.lock
    /\ w'.misuse = w.misuse

\* The module after its pump went Idle, before Stop: all but the pump is as
\* pa__init left it, and a call just handled was served as usual.
ServedWhenIdle ==
    (phase = "running" /\ cnt["io_new"] = 1 /\ Idle) =>
        /\ w.iface /\ w.ext /\ w.protoRefs = 1 /\ w.hwRefs = 1
        /\ u.dbus_protocol = PROTO /\ u.hw_module = HW
        /\ u.pid \in ChildPids /\ w.child = "running"
        /\ Malformed => (Len(sent) = 1 /\ sent[1].kind = "send_error")
        /\ (last.op = "set" /\ WellFormed) =>
              /\ Len(sent) = 1
              /\ sent[1].kind = IF last.ret = 0 THEN "send_empty_reply"
                                ELSE "send_error"
              /\ Count(ops, "set_parameters") = 1
        /\ (last.op = "get" /\ WellFormed /\ last.result # NULL) =>
              /\ sent = << [kind |-> "send_return", args |-> <<last.result>>] >>
              /\ Count(ops, "get_parameters") = 1

\* C12: a pump callback (and so a transition Active -> Idle) changes only the
\* descriptor and the registration: interface, transport and device
\* references and pid are as before, and calls arriving afterwards are served
\* as before, until Stop.
C12_PumpChangesOnlyPump ==
    /\ [][(nEvents' # nEvents) => PumpFrame]_vars
    /\ []ServedWhenIdle

C12_Witness ==
    /\ phase = "running" /\ cnt["io_new"] = 1 /\ Idle
    /\ last.op = "get" /\ WellFormed /\ last.result # NULL
    /\ Len(sent) = 1

\* C13: between operations the descriptor is present iff the event-loop
\* registration is present, in the module state and in the world.
C13_DescriptorIffRegistration ==
    /\ w.uMem # "none" => ((u.fd >= 0) <=> (u.io_event # NULL))
    /\ w.fdOpen <=> (w.regs = 1)
    /\ w.regs \in {0, 1}

C13_Witness ==
    /\ w.uMem = "live" /\ phase = "running" /\ cnt["io_new"] = 1
    /\ u.fd = NoFd /\ u.io_event = NULL /\ ~w.fdOpen /\ w.regs = 0

\* A helper was spawned (pa_start_child_for_read succeeded).
Spawned == cnt["io_new"] = 1

\* What C14 says apart from the reaping: the pid is tracked iff a spawn
\* succeeded and stays so whatever the pump does; Stop sends one signal to
\* a spawned helper and waits for it; without a spawn, no signal, no wait.
PidTracked ==
    /\ w.uMem # "none" => ((u.pid \in ChildPids) <=> Spawned)
    /\ ~Spawned => (cnt["kill"] = 0 /\ cnt["waitpid"] = 0 /\ w.child = "none")
    /\ "kill" \notin w.misuse
    /\ cnt["kill"] <= 1
    /\ (Spawned /\ phase \in {"waiting", "stopped"}) => cnt["kill"] = 1
    /\ (Spawned /\ phase = "stopped") => cnt["waitpid"] >= 1

\* C14 as stated: ... and Stop reaps every spawned helper.
C14_StopReapsSpawned ==
    /\ PidTracked
    /\ (Spawned /\ phase = "stopped") => w.child = "reaped"

\* C14 amended: ... and Stop reaps the helper when its wait succeeds; a wait
\* failing with another error than EINTR is logged and ends Stop with the
\* helper signalled but not reaped.
C14_StopReapsUnlessWaitFails ==
    /\ PidTracked
    /\ (Spawned /\ phase = "stopped") =>
          /\ w.child \in {"reaped", "signalled"}
          /\ (w.child = "reaped") <=> (Count(ops, "log") = 0)

C14_Witness ==
    /\ Spawned /\ phase = "stopped" /\ ~last.active
    /\ cnt["kill"] = 1 /\ w.child = "reaped"

\* C15: Stop releases in a fixed order: extension and interface before the
\* transport reference, then the device reference, then the signal, the
\* signal before the first wait, deregistration and close after the wait
\* loop, and the module state last.
C15_StopOrder ==
    (last.op = "done" /\ phase \in {"waiting", "stopped"}) =>
        /\ Count(ops, "unregister_extension") = 1
        /\ Count(ops, "remove_interface") = 1
        /\ Count(ops, "protocol_unref") = 1
        /\ Count(ops, "hw_module_unref") = 1
        /\ Before(ops, "unregister_extension", "protocol_unref")
        /\ Before(ops, "remove_interface", "protocol_unref")
        /\ Before(ops, "protocol_unref", "hw_module_unref")
        /\ Before(ops, "hw_module_unref", "kill")
        /\ Before(ops, "kill", "waitpid")
        /\ \A x \in {"mainloop_io_free", "close", "xfree_userdata"} :
              /\ Before(ops, "waitpid", x)
              /\ Before(ops, "kill", x)
              /\ Before(ops, "hw_module_unref", x)
        /\ phase = "waiting" =>
              \A x \in {"mainloop_io_free", "close", "xfree_userdata"} :
                 Count(ops, x) = 0
        /\ phase = "stopped" =>
              /\ Count(ops, "xfree_userdata") = 1
              /\ ops[Len(ops)] = "xfree_userdata"

C15_Witness ==
    /\ last.op = "done" /\ phase = "stopped" /\ last.active
    /\ Count(ops, "kill") = 1 /\ Count(ops, "waitpid") = 2
    /\ Count(ops, "close") = 1

\* The module arguments pass validation: known keys, and a helper value, if
\* given, that parses as a boolean.
ArgsValid(argument) ==
    /\ \A i \in DOMAIN argument : argument[i][1] \in valid_modargs
    /\ \A i \in DOMAIN argument :
          argument[i][1] = "helper" => pa_parse_boolean(argument[i][2]) >= 0

HelperEnabled(argument) ==
    \A i \in DOMAIN argument :
       argument[i][1] = "helper" => pa_parse_boolean(argument[i][2]) # 0

\* A reference to the device handle was obtained at some time.
DeviceAcquired == w.hwRefs + cnt["hw_module_unref"] >= 1

\* C17: Start's steps are gated in order: device handle only after valid
\* arguments, interface only after the device handle, spawn only after the
\* interface and only with the helper enabled, event-loop registration only
\* after a successful spawn; no helper in a run whose argument validation or
\* device acquisition failed.
C17_StartGated ==
    /\ \A n \in {"modargs_new", "hw_module_get", "protocol_get", "add_interface",
                 "register_extension", "start_child", "io_new"} : cnt[n] <= 1
    /\ cnt["hw_module_get"] = 1 => ArgsValid(cfg.argument)
    /\ cnt["add_interface"] = 1 =>
          /\ cnt["hw_module_get"] = 1 /\ DeviceAcquired
          /\ cnt["protocol_get"] = 1 /\ cnt["register_extension"] = 1
    /\ cnt["start_child"] = 1 =>
          /\ cnt["add_interface"] = 1 /\ cnt["register_extension"] = 1
          /\ HelperEnabled(cfg.argument)
    /\ cnt["io_new"] = 1 => (cnt["start_child"] = 1 /\ w.child # "none")
    /\ w.child # "none" => cnt["start_child"] = 1
    /\ (cfg.step # "none" /\ (~ArgsValid(cfg.argument) \/ ~DeviceAcquired)) =>
          (cnt["start_child"] = 0 /\ w.child = "none" /\ cnt["io_new"] = 0)
    /\ last.op = "init" =>
          /\ Before(ops, "modargs_new", "hw_module_get")
          /\ Before(ops, "hw_module_get", "add_interface")
          /\ Before(ops, "hw_module_get", "protocol_get")
          /\ Before(ops, "add_interface", "start_child")
          /\ Before(ops, "register_extension", "start_child")
          /\ Before(ops, "start_child", "io_new")

C17_Witness ==
    /\ last.op = "init" /\ phase = "running"
    /\ Count(ops, "hw_module_get") = 1 /\ Count(ops, "add_interface") = 1
    /\ Count(ops, "start_child") = 1 /\ Count(ops, "io_new") = 1

\* The state right after a pump callback that found the pump Active and
\* whose notification reports hangup or error.
AfterHangupOrError ==
    /\ last.op = "io" /\ last.active
    /\ last.events \cap {PA_IO_EVENT_HANGUP, PA_IO_EVENT_ERROR} # {}

\* C18 as stated: a notification that includes hangup or error interest
\* leaves the pump Idle, also when it reports readable interest as well.
C18_HangupOrErrorEndsSession == AfterHangupOrError => Idle

\* C18 amended: a notification with hangup or error interest and without
\* readable interest leaves the pump Idle; with readable interest as well
\* the read alone decides: Idle after a negative read, Active otherwise.
C18_ReadableTakesPrecedence ==
    AfterHangupOrError =>
        /\ PA_IO_EVENT_INPUT \notin last.events =>
              (Idle /\ Count(ops, "read") = 0)
        /\ PA_IO_EVENT_INPUT \in last.events =>
              /\ Count(ops, "read") = 1
              /\ IF last.r < 0 THEN Idle ELSE Active

C18_Witness ==
    /\ AfterHangupOrError /\ Idle
    /\ last.events = {PA_IO_EVENT_ERROR}
    /\ Count(ops, "mainloop_io_free") = 1 /\ Count(ops, "close") = 1

\* C20: the module-argument object and the control-protocol address string
\* acquired by Start are each released exactly once on every exit path of
\* Start.
C20_TransientsReleasedOnce ==
    cfg.step # "none" =>
        /\ w.ma # "live" /\ w.address # "live"
        /\ cnt["modargs_free"] = (IF w.ma = "none" THEN 0 ELSE 1)
        /\ cnt["xfree_address"] = (IF w.address = "none" THEN 0 ELSE 1)

\* One turn of pa__done's wait loop: one waitpid; the loop goes on iff it
\* was interrupted, and otherwise pa__done runs to its end, after a log line
\* if the wait failed.
WaitTurn ==
    LET new == SubSeq(ops', Len(ops) + 1, Len(ops'))
    IN  /\ Count(new, "waitpid") = 1 /\ new[1] = "waitpid"
        /\ phase' = "waiting" =>
              (new = <<"waitpid">> /\ w'.child = w.child /\ w'.uMem = "live")
        /\ phase' # "waiting" =>
              /\ phase' \in {"stopped", "failed"}
              /\ (w'.child = "reaped" /\ Count(new, "log") = 0)
                    \/ (w'.child = w.child /\ Len(new) >= 2 /\ new[2] = "log")
              /\ new[Len(new)] = "xfree_userdata" /\ w'.uMem = "freed"

\* C16: the wait is retried while it fails with EINTR and the loop ends at
\* the first wait that succeeds or fails otherwise (logged, not
\* propagated); Stop completes once such a wait returns, and only then.
C16_WaitLoop ==
    /\ [][phase = "waiting" => WaitTurn]_vars
    /\ (phase = "waiting") ~> (phase \in {"stopped", "failed"})

C16_Witness ==
    /\ phase = "stopped" /\ nIntr = MaxIntr
    /\ Count(ops, "waitpid") = MaxIntr + 1
    /\ Count(ops, "log") = 1 /\ w.child = "signalled"

\* The helper wrote once and closed its end while the pump is Active.
PumpAtEnd == phase = "running" /\ Active /\ w.closed /\ w.writes = 1

\* The pump went Idle by itself with the output logged, as one record if
\* it fits one read.
PumpEnded ==
    /\ phase = "running" /\ Idle /\ w.pending = 0
    /\ w.written <= BUFFER_MAX => Len(w.records) = 1

\* C11 as stated: after the helper wrote once and closed its end, the output
\* is logged as one record and the pump eventually is Idle without Stop,
\* however the loop reports the end of the stream.
C11_EndOfStreamEndsSession == PumpAtEnd ~> (PumpEnded \/ phase # "running")

\* C11 amended: ... when the loop reports the end of the stream as hangup
\* without readable interest, the pump eventually is Idle without Stop, with
\* all output logged, as one record if it fits one buffer; when the loop
\* reports it with readable interest, the pump stays Active until Stop.
C11_HangupEndsSession ==
    /\ (PumpAtEnd /\ w.eof = {PA_IO_EVENT_HANGUP}) ~>
          (PumpEnded \/ phase # "running")
    /\ [](( phase = "running" /\ Spawned /\ w.closed /\ w.writes = 1 /\ Idle) =>
             /\ w.eof = {PA_IO_EVENT_HANGUP} /\ w.pending = 0
             /\ w.written <= BUFFER_MAX =>
                   (Len(w.records) = 1 /\ w.records[1].bytes = w.written))
    /\ []((phase = "running" /\ Spawned /\ w.closed
             /\ PA_IO_EVENT_INPUT \in w.eof) => Active)

C11_Witness ==
    /\ PumpEnded /\ w.closed /\ w.writes = 1 /\ w.eof = {PA_IO_EVENT_HANGUP}
    /\ w.records[1].bytes = 6 /\ last.op = "io"

RECURSIVE SumBytes(_)
SumBytes(records) ==
    IF records = <<>> THEN 0
    ELSE Head(records).bytes + SumBytes(Tail(records))

\* The state right after a pump callback: at most one read, made iff the
\* notification reports readable interest; a positive read gives one log
\* record and leaves descriptor and registration as they were.
OneReadOneRecord ==
    last.op = "io" =>
        /\ Count(ops, "read") = (IF PA_IO_EVENT_INPUT \in last.events THEN 1 ELSE 0)
        /\ (PA_IO_EVENT_INPUT \in last.events /\ last.r > 0) =>
              /\ Count(ops, "log") + Count(ops, "log_debug") = 1
              /\ Count(ops, "mainloop_io_free") = 0 /\ Count(ops, "close") = 0
              /\ last.active => Active
              /\ w.records[Len(w.records)].bytes = last.r
        /\ ~(PA_IO_EVENT_INPUT \in last.events /\ last.r > 0) =>
              (Count(ops, "log") + Count(ops, "log_debug") <= 1)

\* C19: a pump invocation makes at most one read, and only on readable
\* interest; a positive read gives exactly one log record and leaves the
\* pump Active; bytes still in the pipe wait for a later notification, and
\* the records are the bytes written, in order: each step adds at most one
\* record at the end, and records and pipe together hold what was written.
C19_OneReadPerNotification ==
    /\ []OneReadOneRecord
    /\ [](SumBytes(w.records) + w.pending = w.written)
    /\ [][ \/ w'.records = w.records
           \/ /\ Len(w'.records) = Len(w.records) + 1
              /\ SubSeq(w'.records, 1, Len(w.records)) = w.records
              /\ w'.pending = w.pending - w'.records[Len(w'.records)].bytes
              /\ w'.written = w.written ]_vars

C19_Witness ==
    /\ last.op = "io" /\ last.r = BUFFER_MAX /\ Active
    /\ w.pending > 0 /\ Len(w.records) >= 1
    /\ Count(ops, "read") = 1

====
